---- MODULE Spec2Model ----
(***************************************************************************)
(* Verification model of nullstack-input-mask (src/src/InputMask.tsx):     *)
(* the applyMask transducer, the RegExp objects it tests characters with,  *)
(* and the InputMask component (prepare, render, oninput with its          *)
(* keystroke gate).                                                        *)
(*                                                                         *)
(* Strings are sequences of one-character strings.  A RegExp is a record   *)
(* [cls, global]; its lastIndex is kept per rule object in lastIndex.      *)
(***************************************************************************)
EXTENDS Integers, Sequences, FiniteSets, TLC

VARIABLES mask, replacement, lastIndex, prev, last,
          allowunmatches, onmasked, value, bound, text, phase, ev

vars == <<mask, replacement, lastIndex, prev, last,
          allowunmatches, onmasked, value, bound, text, phase, ev>>

\* ------------------------------------------------------------------ bounds
MaxMaskLen == 3
MaxRawLen == 2

\* ------------------------------------------------------------- characters
Digits == {"0", "1", "9"}
Letters == {"a", "u", "n", "d", "e", "f", "i"}
MaskChars == {"9", "a", "/"}
InputChars == {"1", "a", "/"}

\* The value JavaScript yields for an index past the end of a string.
Undefined == "<undefined>"
\* ToString(undefined), the text RegExp.prototype.test and += work on.
UndefinedText == <<"u", "n", "d", "e", "f", "i", "n", "e", "d">>

ToStr(c) == IF c = Undefined THEN UndefinedText ELSE <<c>>

\* value[index] with a 0-based index, as in the source.
CharAt(s, index) == IF index >= 0 /\ index < Len(s) THEN s[index + 1] ELSE Undefined

SeqsUpTo(S, n) == UNION {[1..k -> S] : k \in 0..n}

Masks == SeqsUpTo(MaskChars, MaxMaskLen) \ {<<>>}
Raws == SeqsUpTo(InputChars, MaxRawLen)

\* ---------------------------------------------------------------- RegExp
\* cls: "digit" = \d, "letter" = [a-z], "word" = \w, "empty" = (?:)
ClassHas(cls, c) ==
    CASE cls = "digit" -> c \in Digits
      [] cls = "letter" -> c \in Letters
      [] cls = "word" -> c \in Digits \cup Letters
      [] OTHER -> FALSE

Min(S) == CHOOSE m \in S : \A k \in S : m <= k

\* RegExp.prototype.test on the text s, for a rule whose lastIndex is li.
\* Returns the result and the rule's lastIndex afterwards.
RegExpTest(rule, li, s) ==
    LET start == IF rule.global THEN li ELSE 0
        hits == IF rule.cls = "empty"
                THEN {p \in 0..Len(s) : p >= start}
                ELSE {p \in 0..(Len(s) - 1) : p >= start /\ ClassHas(rule.cls, s[p + 1])}
    IN IF hits = {}
       THEN [ok |-> FALSE, li |-> IF rule.global THEN 0 ELSE li]
       ELSE [ok |-> TRUE,
             li |-> IF ~rule.global THEN li
                    ELSE IF rule.cls = "empty" THEN Min(hits) ELSE Min(hits) + 1]

\* new RegExp(pattern, "g"): a fresh global rule; an undefined pattern
\* gives the empty pattern, which matches everywhere.
NewRegExp(repl, char) ==
    IF char \in DOMAIN repl THEN [cls |-> repl[char].cls, global |-> TRUE]
    ELSE [cls |-> "empty", global |-> TRUE]

Rules9 == {[cls |-> "digit", global |-> FALSE], [cls |-> "digit", global |-> TRUE]}
RulesA == {[cls |-> "letter", global |-> FALSE], [cls |-> "letter", global |-> TRUE],
           [cls |-> "word", global |-> FALSE]}

\* The replacement objects: "9" and "a" are each a slot marker or absent.
Mappings ==
    {<<>>} \cup {("9" :> r) : r \in Rules9} \cup {("a" :> r) : r \in RulesA}
           \cup {("9" :> r) @@ ("a" :> q) : r \in Rules9, q \in RulesA}

ZeroIndex(repl) == [m \in DOMAIN repl |-> 0]

\* ------------------------------------------------------------- applyMask
\* The skip rule with its comparison dropped: the raw cursor always advances.
SkipLiteralAlways(val, rawIndex, maskChar) == rawIndex + 1

\* Lines 181-184: skip over the mask character in the input if it matches.
SkipLiteral(val, rawIndex, maskChar) ==
    IF CharAt(val, rawIndex) = maskChar THEN rawIndex + 1 ELSE rawIndex

\* Line 170: replacement[maskChar].test(inputChar), on the rule object itself.
SlotTest(repl, li, maskChar, inputChar) ==
    RegExpTest(repl[maskChar], li[maskChar], ToStr(inputChar))

\* Line 188: stop if all input characters are processed.
InputExhausted(val, rawIndex) == rawIndex >= Len(val)

\* The for loop of lines 162-191 from mask index i (0-based) on.  The result
\* carries the masked value, the rules' lastIndex afterwards, whether the
\* pass ended at the validation-failure break of line 175 and, if so, the
\* inputChar that failed.
RECURSIVE ApplyLoop(_, _, _, _, _, _, _)
ApplyLoop(val, msk, repl, i, rawIndex, maskedValue, li) ==
    IF i >= Len(msk)
    THEN [out |-> maskedValue, li |-> li, stopped |-> FALSE, failed |-> Undefined]
    ELSE LET maskChar == msk[i + 1] IN
         IF maskChar \in DOMAIN repl
         THEN LET inputChar == CharAt(val, rawIndex)
                  t == SlotTest(repl, li, maskChar, inputChar)
                  li2 == [li EXCEPT ![maskChar] = t.li]
              IN IF t.ok
                 THEN IF InputExhausted(val, rawIndex + 1)
                      THEN [out |-> maskedValue \o ToStr(inputChar), li |-> li2,
                            stopped |-> FALSE, failed |-> Undefined]
                      ELSE ApplyLoop(val, msk, repl, i + 1, rawIndex + 1,
                                     maskedValue \o ToStr(inputChar), li2)
                 ELSE [out |-> maskedValue, li |-> li2, stopped |-> TRUE,
                       failed |-> inputChar]
         ELSE LET rawIndex2 == SkipLiteral(val, rawIndex, maskChar) IN
              IF InputExhausted(val, rawIndex2)
              THEN [out |-> maskedValue \o <<maskChar>>, li |-> li, stopped |-> FALSE,
                    failed |-> Undefined]
              ELSE ApplyLoop(val, msk, repl, i + 1, rawIndex2,
                             maskedValue \o <<maskChar>>, li)

applyMask(val, msk, repl, li) == ApplyLoop(val, msk, repl, 0, 0, <<>>, li)

\* ------------------------------------------------------- keystroke gate
\* The gate looking at the first position only.
ForbiddenFirstOnly(inputValue, msk, repl) ==
    LET inputChar == CharAt(inputValue, 0) IN
    /\ inputChar # Undefined
    /\ ~RegExpTest(NewRegExp(repl, msk[1]), 0, <<inputChar>>).ok

\* Lines 126-134: mask.split("").some(...), each test on a fresh global rule.
Forbidden(inputValue, msk, repl) ==
    \E index \in 0..(Len(msk) - 1) :
        LET char == msk[index + 1]
            inputChar == CharAt(inputValue, index)
        IN IF inputChar = Undefined THEN FALSE
           ELSE ~RegExpTest(NewRegExp(repl, char), 0, <<inputChar>>).ok

\* ---------------------------------------------------------------- state
NoCall == [made |-> FALSE, raw |-> <<>>, out |-> <<>>, stopped |-> FALSE,
           failed |-> Undefined]
NoEvent == [kind |-> "none", raw |-> <<>>, masked |-> <<>>, stopped |-> FALSE,
            failed |-> Undefined, cbCalled |-> FALSE, cbArg |-> <<>>]
Callbacks == {"none", "observe", "assign"}

\* The component after construction, before prepare.
Init ==
    /\ mask \in Masks
    /\ replacement \in Mappings
    /\ lastIndex = ZeroIndex(replacement)
    /\ allowunmatches \in BOOLEAN
    /\ onmasked \in Callbacks
    /\ value = <<>>
    /\ bound = <<>>
    /\ text = <<>>
    /\ phase = "constructed"
    /\ ev = NoEvent
    /\ prev = NoCall
    /\ last = NoCall

\* prepare(): this.value = applyMask(defaultvalue || "", mask, replacement)
Prepare(defaultvalue) ==
    /\ phase = "constructed"
    /\ LET r == applyMask(defaultvalue, mask, replacement, lastIndex) IN
         /\ value' = r.out
         /\ lastIndex' = r.li
    /\ phase' = "prepared"
    /\ UNCHANGED <<mask, replacement, prev, last, allowunmatches, onmasked, bound, text, ev>>

\* render(): object[property] = this.value and the element shows this.value.
\* mask and bind are given, so neither throw of lines 108-109 is taken.
\* fresh: the parent re-evaluated its rule literals, handing in new RegExp objects.
Render(fresh) ==
    /\ phase \in {"prepared", "dirty", "rendered"}
    /\ bound' = value
    /\ text' = value
    /\ lastIndex' = IF fresh THEN ZeroIndex(replacement) ELSE lastIndex
    /\ phase' = "rendered"
    /\ UNCHANGED <<mask, replacement, prev, last, allowunmatches, onmasked, value, ev>>

\* oninput, lines 121-143; raw is input.value after the user's edit.
OnInput(raw) ==
    /\ phase = "rendered"
    /\ IF ~allowunmatches /\ Forbidden(raw, mask, replacement)
       THEN /\ text' = value
            /\ ev' = [NoEvent EXCEPT !.kind = "rejected", !.raw = raw]
            /\ UNCHANGED <<value, bound, lastIndex, phase>>
       ELSE LET r == applyMask(raw, mask, replacement, lastIndex)
                called == onmasked # "none"
                property == IF onmasked = "assign" THEN raw ELSE r.out
            IN /\ value' = property
               /\ bound' = property
               /\ text' = raw
               /\ lastIndex' = r.li
               /\ ev' = [kind |-> "accepted", raw |-> raw, masked |-> r.out,
                         stopped |-> r.stopped, failed |-> r.failed,
                         cbCalled |-> called,
                         cbArg |-> IF called THEN raw ELSE <<>>]
               /\ phase' = "dirty"
    /\ UNCHANGED <<mask, replacement, prev, last, allowunmatches, onmasked>>

Next ==
    \/ \E d \in Raws : Prepare(d)
    \/ \E fresh \in BOOLEAN : Render(fresh)
    \/ \E raw \in Raws : OnInput(raw)

Spec == Init /\ [][Next]_vars

\* ------------------------------------------- applyMask called on its own
InitPure ==
    /\ mask \in Masks
    /\ replacement \in Mappings
    /\ lastIndex = ZeroIndex(replacement)
    /\ allowunmatches = TRUE
    /\ onmasked = "none"
    /\ value = <<>>
    /\ bound = <<>>
    /\ text = <<>>
    /\ phase = "direct"
    /\ ev = NoEvent
    /\ prev = NoCall
    /\ last = NoCall

\* applyMask(x, mask, replacement) on the replacement object held so far.
Invoke(x) ==
    /\ phase = "direct"
    /\ LET r == applyMask(x, mask, replacement, lastIndex) IN
         /\ last' = [made |-> TRUE, raw |-> x, out |-> r.out, stopped |-> r.stopped,
                    failed |-> r.failed]
         /\ lastIndex' = r.li
    /\ UNCHANGED <<mask, replacement, allowunmatches, onmasked, value, bound, text, phase, ev>>

\* One call in a sequence of calls; the call before it is remembered.
Call(x) ==
    /\ Invoke(x)
    /\ prev' = last

\* The result of the last call passed back in as the raw value.
CallOnOutput ==
    /\ last.made
    /\ Call(last.out)

NextPure ==
    \/ \E x \in Raws : Call(x)
    \/ CallOnOutput

SpecPure == InitPure /\ [][NextPure]_vars

\* ------------------------------------------------ applyMask, call by call
\* Each call looked at by itself.
Single(x) ==
    /\ Invoke(x)
    /\ UNCHANGED prev

NextSingle == \E x \in Raws : Single(x)

SpecSingle == InitPure /\ [][NextSingle]_vars

\* ================================================================ claims
Range(s) == {s[k] : k \in 1..Len(s)}
IsPrefix(s, t) == Len(s) <= Len(t) /\ \A k \in 1..Len(s) : s[k] = t[k]
IsSlot(c) == c \in DOMAIN replacement

\* C1: the masked value of every call is at most as long as the mask.
C1_LengthBound == last.made => Len(last.out) <= Len(mask)

\* C2: applyMask of the empty raw value is the empty string.
C2_EmptyInput == (last.made /\ last.raw = <<>>) => last.out = <<>>

\* C3: applying the mask to a masked value gives that masked value back.
C3_Idempotence ==
    (prev.made /\ last.made /\ last.raw = prev.out) => last.out = prev.out

\* C4: two calls with the same raw value, mask and replacement object return
\* the same masked value.
C4_CallIndependence ==
    (prev.made /\ last.made /\ last.raw = prev.raw) => last.out = prev.out

\* C5: within the masked value, a literal position holds the mask's character
\* and a slot position holds a character of the raw value that its rule accepts.
C5_MaskConformance ==
    last.made =>
        \A k \in 1..Len(last.out) :
            /\ k <= Len(mask)
            /\ IF IsSlot(mask[k])
               THEN /\ last.out[k] \in Range(last.raw)
                    /\ ClassHas(replacement[mask[k]].cls, last.out[k])
               ELSE last.out[k] = mask[k]

\* C6: if y is a prefix of x and no character of y was refused by a slot, the
\* masked value of y is a prefix of the masked value of x.
C6_PrefixMonotonicity ==
    (/\ prev.made /\ last.made
     /\ IsPrefix(prev.raw, last.raw)
     /\ ~(prev.stopped /\ prev.failed # Undefined))
    => IsPrefix(prev.out, last.out)

C8_OnmaskedGetsMasked == ev.cbCalled => ev.cbArg = ev.masked

\* C9: in strict mode, no raw value accepted by the gate makes applyMask stop
\* at a character that a slot refuses.
C9_StrictNoRefusal ==
    (~allowunmatches /\ ev.kind = "accepted") =>
        ~(ev.stopped /\ ev.failed # Undefined)

\* Some position of the raw value lies on a slot marker whose rule the
\* character at that position fails.
GateFails(raw) ==
    \E k \in 1..Len(mask) :
        /\ k <= Len(raw)
        /\ IsSlot(mask[k])
        /\ ~ClassHas(replacement[mask[k]].cls, raw[k])

\* C10: in strict mode an input event with a failing slot position is
\* rejected whole: the stored value and the bound property are unchanged, the
\* element shows the stored value again, applyMask and onmasked are not
\* called; and an event is rejected only for such a position.
C10_GateRejection ==
    [][LET raw == ev'.raw IN
        (OnInput(raw) /\ ~allowunmatches) =>
            /\ GateFails(raw) =>
                 /\ value' = value
                 /\ bound' = bound
                 /\ text' = value
                 /\ lastIndex' = lastIndex
                 /\ ev'.kind = "rejected"
                 /\ ~ev'.cbCalled
            /\ ev'.kind = "rejected" => GateFails(raw)]_vars

\* A rejected event in strict mode over a non-empty stored value.
C10_Witness ==
    /\ ~allowunmatches
    /\ ev.kind = "rejected"
    /\ value # <<>>
    /\ text = value
    /\ bound = value
====
